---- MODULE Spec2Model ----
(***************************************************************************)
(* Model of the position risk monitor of solana-sniper-core               *)
(* (src/src/trading/risk.rs).                                             *)
(*                                                                         *)
(* Units.  f64 prices are held in hundredths (100 is 1.00), SOL amounts   *)
(* in thousandths of a SOL, fractions passed to emergency_sell in         *)
(* thousandths (1000 is 1.0), pool reserves in units of 10^8 lamports     *)
(* (100 is 10_000_000_000), and the clock in milliseconds since            *)
(* start_time.  The f64 comparisons of the source are written as the      *)
(* equivalent integer cross-multiplications; on every value of Prices,    *)
(* EntryPrices, Reserves and Stakes the f64 result and the exact result   *)
(* agree.                                                                  *)
(*                                                                         *)
(* get_price_and_liquidity and the swap inside emergency_sell are calls   *)
(* to the outside world returning Result: the model draws their outcome   *)
(* (Ok with a value, or Err) as an input of the tick.                     *)
(*                                                                         *)
(* Three specifications share the module.  Spec follows one RiskMonitor   *)
(* through its ticks.  SupervisorSpec follows the monitors created by     *)
(* start_risk_monitoring (src/src/trading/pump_arb.rs) and the loops      *)
(* spawned on them, one step per entry to and exit from                   *)
(* check_risk_conditions.  ScannerSpec follows the loop of                *)
(* monitor_eligible_tokens (src/src/scanner/pump_fun.rs); there           *)
(* liquidity and price_change_24h are held in tenths (50 is 5.0).         *)
(***************************************************************************)
EXTENDS Integers, Sequences, FiniteSets, TLC

\* ---- bounds of the model ------------------------------------------------
MaxTicks == 2
MaxMonitors == 2
MaxTasks == 3
MaxTokens == 2
MaxScans == 2

\* ---- input sets -----------------------------------------------------------
EntryPrices == {100, 200}
Prices == {40, 105, 140, 200, 5000}
Reserves == {60, 100, 110}
EntryReserves == {100, 200}
Stakes == {5000, 10000}
TimePoints == {0, 90500, 91000, 91500, 86400500, 86401000, 86401500}
Tokens == {"mintA", "mintB"}
ScanTimes == {1000, 1001}
\* PumpToken values of a response: one that passes every filter at the
\* boundaries, one created in the future, and one failing each single filter
TokenPool ==
    {[mint |-> "pass", created_timestamp |-> 101,
      is_mint_authority_revoked |-> TRUE, liquidity |-> 50,
      lp_status |-> "initialized", price_change_24h |-> 201],
     [mint |-> "future", created_timestamp |-> 2000,
      is_mint_authority_revoked |-> TRUE, liquidity |-> 60,
      lp_status |-> "pending", price_change_24h |-> 300],
     [mint |-> "old", created_timestamp |-> 100,
      is_mint_authority_revoked |-> TRUE, liquidity |-> 60,
      lp_status |-> "pending", price_change_24h |-> 300],
     [mint |-> "mintable", created_timestamp |-> 900,
      is_mint_authority_revoked |-> FALSE, liquidity |-> 60,
      lp_status |-> "initialized", price_change_24h |-> 300],
     [mint |-> "thin", created_timestamp |-> 900,
      is_mint_authority_revoked |-> TRUE, liquidity |-> 49,
      lp_status |-> "initialized", price_change_24h |-> 300],
     [mint |-> "migrated", created_timestamp |-> 900,
      is_mint_authority_revoked |-> TRUE, liquidity |-> 60,
      lp_status |-> "complete", price_change_24h |-> 300],
     [mint |-> "flat", created_timestamp |-> 900,
      is_mint_authority_revoked |-> TRUE, liquidity |-> 60,
      lp_status |-> "initialized", price_change_24h |-> 200]}

VARIABLES
    entry_price,      \* RiskMonitor.entry_price
    stake_sol,        \* RiskMonitor.stake_sol
    moon_allocation,  \* RiskMonitor.moon_allocation
    peak_price,       \* RiskMonitor.peak_price
    entry_reserve,    \* reserve of the pool when the position was opened
    clock,            \* milliseconds elapsed since RiskMonitor.start_time
    loop_state,       \* "created", "running" or "stopped" (the spawned loop)
    ticks,            \* number of runs of check_risk_conditions so far
    last_tick,        \* what the latest run of check_risk_conditions saw and did
    issued,           \* the emergency_sell calls of the latest tick, in order
    sold_total,       \* sum of the amounts of all emergency_sell calls so far
    panic_partial_count, \* number of 0.5 sells of check_panic_sell so far
    moon_count,       \* number of sell_moon_position calls so far
    full_exit_tick,   \* tick of the first emergency_sell(1.0) that returned Ok, 0 if none
    feed_failures,    \* consecutive failed price reads up to the latest tick
    monitor_token,    \* token of each RiskMonitor made by start_risk_monitoring
    task_monitor,     \* for each spawned loop, the monitor it runs on
    task_pc,          \* for each spawned loop: "waiting", "checking" or "stopped"
    scanner_state,    \* "running" while the loop of monitor_eligible_tokens runs
    scans,            \* number of get_eligible_tokens calls so far
    scan_now,         \* SystemTime::now() of the latest scan, in seconds
    scan_response,    \* what the HTTP request of the latest scan produced
    scan_result,      \* what the latest get_eligible_tokens returned
    callback_count,   \* number of callback invocations so far
    callback_arg      \* argument of the latest callback invocation

risk_vars == <<entry_price, stake_sol, moon_allocation, peak_price,
               entry_reserve, clock, loop_state, ticks, last_tick, issued,
               sold_total, panic_partial_count, moon_count, full_exit_tick,
               feed_failures>>

sup_vars == <<monitor_token, task_monitor, task_pc>>

scan_vars == <<scanner_state, scans, scan_now, scan_response, scan_result,
               callback_count, callback_arg>>

vars == <<risk_vars, sup_vars, scan_vars>>

\* ---- helpers --------------------------------------------------------------
RECURSIVE SumAmounts(_)
SumAmounts(s) == IF s = <<>> THEN 0 ELSE Head(s).amount + SumAmounts(Tail(s))

CountSells(s, chk, fr) ==
    Cardinality({i \in 1..Len(s) : s[i].check = chk /\ s[i].fraction = fr})

Checks(s) == {s[i].check : i \in 1..Len(s)}

\* Instant::elapsed().as_secs(): whole seconds, truncated
as_secs(ms) == ms \div 1000

\* ---- RiskMonitor ------------------------------------------------------------
\* the reserve check_rug_pull compares against (a literal in the source)
initial_reserve == 100

\* emergency_sell(fraction): amount_to_sell = stake_sol * fraction
emergency_sell(chk, fraction) ==
    [check |-> chk, fraction |-> fraction,
     amount |-> (stake_sol * fraction) \div 1000]

\* a moon sale that passes the whole stake instead of the moon share
sell_moon_position_WholeStake == emergency_sell("moon_exit", 1000)

\* sell_moon_position: emergency_sell(moon_allocation / stake_sol)
sell_moon_position ==
    emergency_sell("moon_exit", (moon_allocation * 1000) \div stake_sol)

\* drop_ratio = 1.0 - current_reserve / initial_reserve; drop_ratio >= 0.4
check_rug_pull(current_reserve) ==
    IF (initial_reserve - current_reserve) * 10 >= 4 * initial_reserve
    THEN <<emergency_sell("rug_pull", 1000)>>
    ELSE <<>>

\* a panic check whose time-out already fires at 90 s (>= for >)
check_panic_sell_At90(current_price, elapsed) ==
    IF (entry_price - current_price) * 10 >= 6 * entry_price
    THEN <<emergency_sell("panic_sell", 1000)>>
    ELSE IF elapsed >= 90 /\ current_price * 10 < entry_price * 11
         THEN <<emergency_sell("panic_sell", 500)>>
         ELSE <<>>

\* drawdown = (entry_price - current_price) / entry_price
check_panic_sell(current_price, elapsed) ==
    IF (entry_price - current_price) * 10 >= 6 * entry_price
    THEN <<emergency_sell("panic_sell", 1000)>>
    ELSE IF elapsed > 90 /\ current_price * 10 < entry_price * 11
         THEN <<emergency_sell("panic_sell", 500)>>
         ELSE <<>>

\* a trailing stop with the comparison turned round and no upside guard
check_time_decay_NoUpsideGuard(peak) ==
    IF (peak - entry_price) * 10 <= 3 * peak
    THEN <<emergency_sell("time_decay", 1000)>>
    ELSE <<>>

\* drawdown_from_peak = (peak_price - entry_price * 1.0) / peak_price
check_time_decay(peak) ==
    IF (peak - entry_price) * 10 >= 3 * peak /\ peak > entry_price
    THEN <<emergency_sell("time_decay", 1000)>>
    ELSE <<>>

\* a timer that already counts the 86400th second as expired
MoonTimerExpired_Inclusive(elapsed) == elapsed >= 86400

\* the 24-hour timer of check_moon_exit
MoonTimerExpired(elapsed) == elapsed > 86400

\* moon_multiplier = current_price / entry_price
check_moon_exit(current_price, elapsed) ==
    IF current_price >= 50 * entry_price
    THEN <<sell_moon_position>>
    ELSE IF MoonTimerExpired(elapsed)
         THEN <<sell_moon_position>>
         ELSE <<>>

\* The position of a check in check_risk_conditions
Stage(chk) == CASE chk = "rug_pull" -> 1
                [] chk = "panic_sell" -> 2
                [] chk = "time_decay" -> 3
                [] chk = "moon_exit" -> 4

NoTick == [result |-> "none", price |-> 0, reserve |-> 0,
           elapsed_panic |-> 0, elapsed_moon |-> 0, stage |-> 0]

NoResponse == [kind |-> "none", tokens |-> <<>>]
NoResult == [ok |-> FALSE, tokens |-> <<>>]

\* no position has been opened through start_risk_monitoring
SupervisorIdle ==
    /\ monitor_token = <<>>
    /\ task_monitor = <<>>
    /\ task_pc = <<>>

\* monitor_eligible_tokens has been entered and has not scanned yet
ScannerIdle ==
    /\ scanner_state = "running"
    /\ scans = 0
    /\ scan_now = 0
    /\ scan_response = NoResponse
    /\ scan_result = NoResult
    /\ callback_count = 0
    /\ callback_arg = <<>>

\* RiskMonitor::new
RiskMonitorNew ==
    /\ entry_price \in EntryPrices
    /\ stake_sol \in Stakes
    /\ moon_allocation = (stake_sol * 2) \div 10
    /\ peak_price = entry_price
    /\ entry_reserve \in EntryReserves
    /\ clock = 0
    /\ loop_state = "created"
    /\ ticks = 0
    /\ last_tick = NoTick
    /\ issued = <<>>
    /\ sold_total = 0
    /\ panic_partial_count = 0
    /\ moon_count = 0
    /\ full_exit_tick = 0
    /\ feed_failures = 0

Init == RiskMonitorNew /\ SupervisorIdle /\ ScannerIdle

\* start_monitoring: spawns the loop
start_monitoring ==
    /\ loop_state = "created"
    /\ loop_state' = "running"
    /\ UNCHANGED <<entry_price, stake_sol, moon_allocation, peak_price,
                   entry_reserve, clock, ticks, last_tick, issued, sold_total,
                   panic_partial_count, moon_count, full_exit_tick,
                   feed_failures>>
    /\ UNCHANGED <<sup_vars, scan_vars>>

\* a loop that logs a failed price read and goes on
AfterResult_IgnoreFeedErr(result) ==
    IF result \in {"ok", "feed_err"} THEN "running" ELSE "stopped"

\* a loop that logs a failed sell and goes on
AfterResult_IgnoreSellErr(result) ==
    IF result \in {"ok", "sell_err"} THEN "running" ELSE "stopped"

\* What the loop does with the Result of check_risk_conditions:
\* if let Err(e) = ... { log::error!(...); break; }
AfterResult(result) == IF result = "ok" THEN "running" ELSE "stopped"

\* a peak that is overwritten by every observation
UpdatePeak_Overwrite(current_price) == current_price

\* if current_price > self.peak_price { self.peak_price = current_price; }
UpdatePeak(current_price) ==
    IF current_price > peak_price THEN current_price ELSE peak_price

\* One iteration of the loop of start_monitoring: interval.tick(), which
\* returns at once the first time and later only after time has passed, then
\* check_risk_conditions.  feed_ok is the outcome of get_price_and_liquidity,
\* (current_price, quote_reserve) its value, t1 and t2 the clock at the two
\* reads of start_time.elapsed(), and fail_at the index of the emergency_sell
\* call of this tick that returns Err (0: none does).
check_risk_conditions(feed_ok, current_price, quote_reserve, t1, t2, fail_at) ==
    LET new_peak == UpdatePeak(current_price)
        planned == check_rug_pull(quote_reserve)
                   \o check_panic_sell(current_price, as_secs(t1))
                   \o check_time_decay(new_peak)
                   \o check_moon_exit(current_price, as_secs(t2))
        calls == IF fail_at = 0 THEN planned ELSE SubSeq(planned, 1, fail_at)
        result == IF fail_at = 0 THEN "ok" ELSE "sell_err"
        stage == IF fail_at = 0 THEN 4 ELSE Stage(planned[fail_at].check)
        has_full == \E i \in 1..Len(calls) :
                        calls[i].fraction = 1000 /\ i # fail_at
    IN
    IF ~feed_ok
    THEN /\ loop_state' = AfterResult("feed_err")
         /\ last_tick' = [result |-> "feed_err", price |-> 0, reserve |-> 0,
                          elapsed_panic |-> 0, elapsed_moon |-> 0, stage |-> 0]
         /\ issued' = <<>>
         /\ feed_failures' = feed_failures + 1
         /\ UNCHANGED <<peak_price, sold_total, panic_partial_count,
                        moon_count, full_exit_tick>>
    ELSE /\ fail_at <= Len(planned)
         /\ feed_failures' = 0
         /\ peak_price' = new_peak
         /\ issued' = calls
         /\ sold_total' = sold_total + SumAmounts(calls)
         /\ panic_partial_count' =
                panic_partial_count + CountSells(calls, "panic_sell", 500)
         /\ moon_count' = moon_count + Cardinality(Checks(calls) \cap {"moon_exit"})
         /\ full_exit_tick' = IF full_exit_tick = 0 /\ has_full
                              THEN ticks + 1 ELSE full_exit_tick
         /\ last_tick' = [result |-> result, price |-> current_price,
                          reserve |-> quote_reserve,
                          elapsed_panic |-> as_secs(t1),
                          elapsed_moon |-> as_secs(t2), stage |-> stage]
         /\ loop_state' = AfterResult(result)

MonitorTick ==
    /\ loop_state = "running"
    /\ ticks < MaxTicks
    /\ \E t1 \in TimePoints, t2 \in TimePoints :
         /\ IF ticks = 0 THEN clock <= t1 ELSE clock < t1
         /\ t1 <= t2
         /\ clock' = t2
         /\ \/ check_risk_conditions(FALSE, 0, 0, t1, t2, 0) /\ t1 = t2
            \/ \E p \in Prices, r \in Reserves, f \in 0..4 :
                 check_risk_conditions(TRUE, p, r, t1, t2, f)
    /\ ticks' = ticks + 1
    /\ UNCHANGED <<entry_price, stake_sol, moon_allocation, entry_reserve>>
    /\ UNCHANGED <<sup_vars, scan_vars>>

Next == start_monitoring \/ MonitorTick

Spec == Init /\ [][Next]_vars

\* ---- start_risk_monitoring and the spawned loops ----------------------------
\* the RiskMonitor variables of Spec, at rest in the other specifications
RiskParked ==
    /\ RiskMonitorNew
    /\ entry_price = 100
    /\ stake_sol = 5000
    /\ entry_reserve = 100

\* start_risk_monitoring(token, stake_sol): Arc::new(RiskMonitor::new(..)),
\* then monitor.start_monitoring().await, which spawns the loop.  Nothing is
\* looked up or registered under the token.
start_risk_monitoring(tok) ==
    /\ Len(monitor_token) < MaxMonitors
    /\ Len(task_pc) < MaxTasks
    /\ monitor_token' = Append(monitor_token, tok)
    /\ task_monitor' = Append(task_monitor, Len(monitor_token) + 1)
    /\ task_pc' = Append(task_pc, "waiting")
    /\ UNCHANGED <<risk_vars, scan_vars>>

\* start_monitoring(self: Arc<Self>) called on another clone of the Arc of
\* monitor m: tokio::spawn of one more loop over the same RiskMonitor
start_monitoring_clone(m) ==
    /\ m \in 1..Len(monitor_token)
    /\ Len(task_pc) < MaxTasks
    /\ task_monitor' = Append(task_monitor, m)
    /\ task_pc' = Append(task_pc, "waiting")
    /\ UNCHANGED <<monitor_token, risk_vars, scan_vars>>

\* interval.tick().await returns in loop t, which enters
\* check_risk_conditions and is suspended at its first .await
interval_tick(t) ==
    /\ t \in 1..Len(task_pc)
    /\ task_pc[t] = "waiting"
    /\ task_pc' = [task_pc EXCEPT ![t] = "checking"]
    /\ UNCHANGED <<monitor_token, task_monitor, risk_vars, scan_vars>>

\* check_risk_conditions returns in loop t: Ok goes back to interval.tick(),
\* Err is logged and breaks the loop
check_returns(t, ok) ==
    /\ t \in 1..Len(task_pc)
    /\ task_pc[t] = "checking"
    /\ task_pc' = [task_pc EXCEPT
                     ![t] = IF AfterResult(IF ok THEN "ok" ELSE "sell_err") = "running"
                            THEN "waiting" ELSE "stopped"]
    /\ UNCHANGED <<monitor_token, task_monitor, risk_vars, scan_vars>>

SupervisorInit == RiskParked /\ SupervisorIdle /\ ScannerIdle

SupervisorNext ==
    \/ \E tok \in Tokens : start_risk_monitoring(tok)
    \/ \E m \in 1..MaxMonitors : start_monitoring_clone(m)
    \/ \E t \in 1..MaxTasks : interval_tick(t)
    \/ \E t \in 1..MaxTasks, ok \in BOOLEAN : check_returns(t, ok)

SupervisorSpec == SupervisorInit /\ [][SupervisorNext]_vars

\* ---- PumpFunScanner -----------------------------------------------------------
SeqsUpTo(S, n) == UNION {[1..k -> S] : k \in 0..n}

\* what send(), status and text() can produce: a transport error, a non-2xx
\* status, a body that does not parse, or a body with a list of PumpToken
Responses ==
    {[kind |-> k, tokens |-> <<>>] : k \in {"send_err", "http_err", "parse_err"}}
    \cup {[kind |-> "ok", tokens |-> toks] : toks \in SeqsUpTo(TokenPool, MaxTokens)}

\* u64::saturating_sub
saturating_sub(a, b) == IF a >= b THEN a - b ELSE 0

\* .filter(|t| now.saturating_sub(t.created_timestamp) < 900)
is_new(t, now) == saturating_sub(now, t.created_timestamp) < 900

\* a liquidity filter that rejects exactly 5.0 (> for >=)
has_liquidity_Strict(t) == t.liquidity > 50

\* .filter(|t| t.liquidity >= 5.0)
has_liquidity(t) == t.liquidity >= 50

\* .filter(|t| t.lp_status == "initialized" || t.lp_status == "pending")
is_active(t) == t.lp_status = "initialized" \/ t.lp_status = "pending"

\* .filter(|t| t.price_change_24h > 20.0)
is_growing(t) == t.price_change_24h > 200

\* get_eligible_tokens: Err when the request, the status or the parse fails,
\* otherwise the chain of five filters over the parsed list
get_eligible_tokens(response, now) ==
    IF response.kind # "ok"
    THEN [ok |-> FALSE, tokens |-> <<>>]
    ELSE LET f1 == SelectSeq(response.tokens, LAMBDA t : is_new(t, now))
             f2 == SelectSeq(f1, LAMBDA t : t.is_mint_authority_revoked)
             f3 == SelectSeq(f2, has_liquidity)
             f4 == SelectSeq(f3, is_active)
             f5 == SelectSeq(f4, is_growing)
         IN [ok |-> TRUE, tokens |-> f5]

\* the first arm of the match: Ok(tokens) if !tokens.is_empty()
InvokesCallback(result) == result.ok /\ result.tokens # <<>>

\* a loop that gives up after a failed scan
AfterScan_StopOnErr(result) == IF result.ok THEN "running" ELSE "stopped"

\* every arm of the match falls through to the sleep and the next iteration
AfterScan(result) == "running"

\* one iteration of the loop of monitor_eligible_tokens: get_eligible_tokens,
\* the match on its result, then the 200 ms sleep
ScanIteration ==
    /\ scanner_state = "running"
    /\ scans < MaxScans
    /\ \E now \in ScanTimes, response \in Responses :
         LET result == get_eligible_tokens(response, now)
         IN /\ scan_now <= now
            /\ scan_now' = now
            /\ scan_response' = response
            /\ scan_result' = result
            /\ IF InvokesCallback(result)
               THEN /\ callback_count' = callback_count + 1
                    /\ callback_arg' = result.tokens
               ELSE UNCHANGED <<callback_count, callback_arg>>
            /\ scanner_state' = AfterScan(result)
    /\ scans' = scans + 1
    /\ UNCHANGED <<risk_vars, sup_vars>>

ScannerInit == RiskParked /\ SupervisorIdle /\ ScannerIdle

ScannerNext == ScanIteration

ScannerSpec == ScannerInit /\ [][ScannerNext]_vars

\* ---- properties -------------------------------------------------------------
\* stake minus everything submitted for liquidation so far
remaining_stake == stake_sol - sold_total

\* the latest tick ran the check at position n of check_risk_conditions
Reached(n) == last_tick.result \in {"ok", "sell_err"} /\ last_tick.stage >= n

MoonSoldInTick == "moon_exit" \in Checks(issued)

\* number of sell_moon_position calls before the latest tick
MoonFiredBefore == moon_count - Cardinality(Checks(issued) \cap {"moon_exit"}) > 0

\* C1: every tick issues at most one emergency_sell call.
C1_AtMostOneSellPerTick == Len(issued) <= 1

\* C2: remaining_stake stays within 0..stake, that is, the cumulative amount
\* submitted for liquidation never exceeds the stake.
C2_RemainingStakeInRange == 0 <= remaining_stake /\ remaining_stake <= stake_sol

\* C3: the 50% partial exit of the panic check fires at most once over the
\* lifetime of a position.
C3_PanicPartialAtMostOnce == panic_partial_count <= 1

\* C4: sell_moon_position is called at most once over the lifetime of a
\* position.
C4_MoonExitAtMostOnce == moon_count <= 1

\* C5: once a full exit (emergency_sell(1.0) returning Ok) has been applied in
\* a tick, no later tick runs for that position.
C5_NoTickAfterFullExit == full_exit_tick = 0 \/ ticks = full_exit_tick

C8_TrailingStopFromPeakToCurrent ==
    Reached(3) =>
        (("time_decay" \in Checks(issued)) <=>
            /\ peak_price > entry_price
            /\ (peak_price - last_tick.price) * 10 >= 3 * peak_price)

\* C9: the rug-pull check sells exactly when the observed reserve has dropped
\* by at least 0.40 of the reserve the pool had when the position was opened.
C9_RugPullAgainstEntryReserve ==
    Reached(1) =>
        (("rug_pull" \in Checks(issued)) <=>
            (entry_reserve - last_tick.reserve) * 10 >= 4 * entry_reserve)

PanicSells == SelectSeq(issued, LAMBDA c : c.check = "panic_sell")

C12_PeakIsRunningMaximum ==
    /\ peak_price = entry_price
    /\ [](peak_price >= entry_price)
    /\ [][/\ peak_price' >= peak_price
          /\ (ticks' = ticks + 1 /\ last_tick'.result # "feed_err") =>
                 /\ peak_price' >= last_tick'.price
                 /\ peak_price' \in {peak_price, last_tick'.price}]_vars

\* a second tick observed a price below the peak reached by the first
C12_Witness ==
    /\ ticks = 2
    /\ last_tick.result = "ok"
    /\ last_tick.price < peak_price
    /\ peak_price > entry_price

\* C18: in a tick that ran the trailing-stop check while peak_price equals
\* entry_price, check_time_decay issued no sell.
C18_NoTrailingStopWithoutUpside ==
    (Reached(3) /\ peak_price = entry_price)
    => "time_decay" \notin Checks(issued)

\* the trailing-stop check ran on a position that never rose above its entry
C18_Witness ==
    /\ Reached(3)
    /\ last_tick.result = "ok"
    /\ peak_price = entry_price
    /\ last_tick.price < entry_price

C13_ClosedIffNothingRemains ==
    (loop_state = "stopped") <=> (remaining_stake = 0)

\* C16: with at least one and fewer than five consecutive failed price reads
\* the monitor neither forces a full exit nor terminates: it keeps polling.
C16_KeepsPollingBelowThreshold ==
    (feed_failures > 0 /\ feed_failures < 5) =>
        /\ loop_state = "running"
        /\ issued = <<>>

\* the monitors of a token that have a loop which has not stopped
ActiveMonitors(tok) ==
    {m \in 1..Len(monitor_token) :
        /\ monitor_token[m] = tok
        /\ \E t \in 1..Len(task_pc) :
              task_monitor[t] = m /\ task_pc[t] # "stopped"}

\* the loops that are inside check_risk_conditions of monitor m
TasksChecking(m) ==
    {t \in 1..Len(task_pc) : task_monitor[t] = m /\ task_pc[t] = "checking"}

\* C14: at most one monitor with a running loop exists per token at any time.
C14_OneActiveMonitorPerToken ==
    \A tok \in Tokens : Cardinality(ActiveMonitors(tok)) <= 1

\* C15: no two runs of check_risk_conditions of the same monitor overlap.
C15_TicksNeverOverlap ==
    \A m \in 1..Len(monitor_token) : Cardinality(TasksChecking(m)) <= 1

\* the five eligibility rules, as one predicate over a token of the response
PassesAllRules(t, now) ==
    /\ now - t.created_timestamp < 900
    /\ t.is_mint_authority_revoked = TRUE
    /\ t.liquidity >= 50
    /\ t.lp_status \in {"initialized", "pending"}
    /\ t.price_change_24h > 200

\* C17: a successful get_eligible_tokens returns, in the order received,
\* exactly the tokens of the response that pass all five rules.
C17_EligibleTokensExactlyFiltered ==
    (scans > 0 /\ scan_result.ok) =>
        scan_result.tokens =
            SelectSeq(scan_response.tokens, LAMBDA t : PassesAllRules(t, scan_now))

\* a response of two tokens of which only the second, at the liquidity
\* boundary, is returned
C17_Witness ==
    /\ scan_result.ok
    /\ Len(scan_response.tokens) = 2
    /\ Len(scan_result.tokens) = 1
    /\ scan_result.tokens[1] = scan_response.tokens[2]
    /\ scan_result.tokens[1].liquidity = 50

\* C20: the scanner loop is never left; a scan that fails or returns an empty
\* list invokes no callback, a scan that returns a non-empty list invokes the
\* callback exactly once with that list, and the callback never receives an
\* empty list.
C20_ScannerLoopNeverStops ==
    /\ [](scanner_state = "running")
    /\ [](callback_count > 0 => callback_arg # <<>>)
    /\ [][scans' = scans + 1 =>
             IF scan_result'.ok /\ scan_result'.tokens # <<>>
             THEN /\ callback_count' = callback_count + 1
                  /\ callback_arg' = scan_result'.tokens
             ELSE UNCHANGED <<callback_count, callback_arg>>]_vars

\* a scan that failed or found nothing was followed by one that invoked the callback
C20_Witness ==
    /\ scans = 2
    /\ callback_count = 1
    /\ InvokesCallback(scan_result)
    /\ scanner_state = "running"
====
